---------------------------- MODULE Spec2Model ----------------------------
(***************************************************************************)
(* A model of the Clang exporter of Pigaios (src/exporters/               *)
(* clang_exporter.py): the generic AST walker CLangParser.visitor, the    *)
(* per-function feature accumulator CCLangVisitor, and the export         *)
(* orchestrator CClangExporter.export_one.                                *)
(***************************************************************************)
EXTENDS Integers, Sequences, FiniteSets, TLC

\* ------------------------------------------------------------------ bounds
\* Largest number of descendants of the cursor a walk starts from.
MaxNodes == 3

\* Largest prior value of the condition counter a callback is applied to.
MaxPrior == 1

VARIABLES
  \* --- the tree handed to CLangParser.visitor (a view of the front-end's AST)
  parent,          \* parent[i]: the parent of node i (0 is the cursor walked from)
  kind,            \* kind[i]: the CursorKind name of node i
  spelling,        \* spelling[i]: cursor.spelling of node i
  \* --- the handler object `obj` of CLangParser.visitor
  obj,             \* a CCLangVisitor, or a generic handler [type, ret]
  \* --- CLangParser.visitor
  stack,           \* one frame per active call: the children its loop has left
  total_elements,  \* CLangParser.total_elements
  dispatched,      \* history: the nodes the loop body ran for, in order
  invoked          \* history: <<node, method, returned>> per callback invocation

VARIABLES
  \* --- one callback of CCLangVisitor applied to one cursor
  cursor,          \* [kind, tokens] of the cursor last visited
  before           \* the CCLangVisitor as it was before that visit

VARIABLES
  \* --- CClangExporter (one export run)
  header_files,     \* self.header_files: the names of the files already reconstructed
  src_definitions,  \* self.src_definitions: <<kind, name, source>> entries, in order
  global_variables, \* self.global_variables
  source_cache,     \* self.source_cache: file name -> its lines
  functions,        \* the rows of the store's functions table, in insertion order
  \* --- the running call of export_one
  pc,               \* "idle", "parsed", "extract" or "raised"
  filename,         \* the file being exported
  parser,           \* the CLangParser in use: [tu, warnings, errors, fatals, source]
  state,            \* the recovery driver's state: "Primary" or "Recovered"
  dones,            \* the local set `dones`
  tu_children,      \* the top-level elements the loop of line 700 has left
  \* --- history
  exported,         \* how many configured files export_one has returned for
  seen_variables,   \* the names of the top-level variables line 742 has met
  parses            \* how many times the current file has been parsed

VARIABLES
  \* --- the store, with its workers in parallel mode
  tx,               \* tx[w]: worker w's transaction: [pc, todo, rows]
  writer            \* the worker that holds the store's write lock, or 0

VARIABLES
  \* --- a function of the exporter applied to one argument
  input,            \* the argument
  output            \* the value returned, once the call has returned

walkVars == <<parent, kind, spelling, obj, stack, total_elements, dispatched, invoked>>
scanVars == <<cursor, before, input, output>>
exportVars == <<header_files, src_definitions, global_variables, source_cache,
                functions, pc, filename, parser, state, dones, tu_children,
                exported, seen_variables, parses, tx, writer>>
vars == <<walkVars, scanVars, exportVars>>

\* ------------------------------------------------------------ cursor kinds
\* clang.cindex.CursorKind values of the kinds the model uses; the walker
\* compares kinds by this ordering (lines 364-365).
KindValue(k) ==
  CASE k = "ENUM_DECL"         -> 5
    [] k = "INTEGER_LITERAL"   -> 106
    [] k = "FLOATING_LITERAL"  -> 107
    [] k = "IMAGINARY_LITERAL" -> 108
    [] k = "STRING_LITERAL"    -> 109
    [] k = "CHARACTER_LITERAL" -> 110
    [] k = "BINARY_OPERATOR"   -> 114
    [] k = "COMPOUND_STMT"     -> 202
    [] k = "IF_STMT"           -> 205
    [] k = "SWITCH_STMT"       -> 206
    [] k = "WHILE_STMT"        -> 207
    [] k = "DO_STMT"           -> 208
    [] k = "FOR_STMT"          -> 209
    [] OTHER                   -> 1

\* children.kind >= CursorKind.INTEGER_LITERAL and <= CursorKind.STRING_LITERAL
InLiteralRange(k) ==
  /\ KindValue(k) >= KindValue("INTEGER_LITERAL")
  /\ KindValue(k) <= KindValue("STRING_LITERAL")

\* ------------------------------------------------------------------- trees
Nodes == 1 .. Len(kind)

NodeSeq == [i \in 1 .. Len(kind) |-> i]

\* cursor.get_children(): the children of n, in source order.
get_children(n) == SelectSeq(NodeSeq, LAMBDA i : parent[i] = n)

\* The shapes of the trees with n descendants: node i's parent comes before i
\* (0 is the cursor the walk starts from).
ParentMaps(n) == { p \in [1 .. n -> 0 .. n] : \A i \in 1 .. n : p[i] < i }


\* ------------------------------------------------------------------ tokens
\* Largest number of tokens of an if statement after its `if (`.
MaxIfTokens == 4
\* Largest number of labels (case or default) of a switch statement.
MaxLabels == 4

\* clang.cindex.TokenKind of a token, by its spelling (the front-end's lexer).
TokenKindOf(t) ==
  CASE t \in {"if", "else", "switch", "case", "default", "break", "return"}
                                              -> "KEYWORD"
    [] t \in {"0", "1", "2", "3"}             -> "LITERAL"
    [] t \in {"x", "y", "A"}                  -> "IDENTIFIER"
    [] OTHER                                  -> "PUNCTUATION"

\* CONDITIONAL_OPERATORS (line 34)
CONDITIONAL_OPERATORS == {"==", "!=", "<", ">", ">=", "<=", "?"}

SeqsUpTo(S, n) == UNION { [1 .. m -> S] : m \in 0 .. n }

\* The number of tokens of `tokens` that belong to S.
RECURSIVE CountIn(_, _)
CountIn(tokens, S) ==
  IF tokens = <<>> THEN 0
  ELSE (IF Head(tokens) \in S THEN 1 ELSE 0) + CountIn(Tail(tokens), S)

\* Parenthesis depth after the first i tokens.
Depth(tokens, i) ==
  CountIn(SubSeq(tokens, 1, i), {"("}) - CountIn(SubSeq(tokens, 1, i), {")"})

\* Positions of the `)` tokens that bring the depth back to zero.
Closers(tokens) ==
  { i \in 1 .. Len(tokens) : tokens[i] = ")" /\ Depth(tokens, i) = 0 }

\* The token streams cursor.get_tokens() yields for an if statement:
\* `if ( condition ) body [else body]`, the condition's parentheses balanced.
IfTokenStreams ==
  { <<"if", "(">> \o s : s \in
      { t \in SeqsUpTo({"(", ")", "&&", "||", "x"}, MaxIfTokens) :
          /\ Closers(<<"(">> \o t) # {}
          /\ \A i \in 1 .. Len(t) : Depth(<<"(">> \o t, i + 1) >= 0 } }

\* The tokens of one label of a switch, with the statement it labels.
LabelTokens(l) ==
  IF l = "default" THEN <<"default", ":", "break", ";">>
  ELSE <<"case", l, ":", "break", ";">>

RECURSIVE Labelled(_)
Labelled(ls) ==
  IF ls = <<>> THEN <<>> ELSE LabelTokens(Head(ls)) \o Labelled(Tail(ls))

\* The token stream of `switch (x) { <labels> }`.
SwitchTokens(ls) == <<"switch", "(", "x", ")", "{">> \o Labelled(ls) \o <<"}">>

\* The label lists of the modelled switch statements: literal labels, an
\* identifier label (an enumerator) and default; default at most once.
LabelLists ==
  { ls \in SeqsUpTo({"1", "2", "3", "A", "default"}, MaxLabels) :
      Cardinality({ i \in 1 .. Len(ls) : ls[i] = "default" }) <= 1 }

SwitchTokenStreams == { SwitchTokens(ls) : ls \in LabelLists }

\* The token streams of a binary operator `x <op> y`.
BinaryTokenStreams ==
  { <<"x", op, "y">> : op \in {"*", "/", "==", "<", "+", "&&"} }

\* The tokens of the statements the walked function bodies are built of.
NodeTokens(k) ==
  CASE k = "IF_STMT"     -> { <<"if", "(", "x", ")">>,
                              <<"if", "(", "x", "&&", "x", ")", "x", "||", "x">> }
    [] k = "SWITCH_STMT" -> { SwitchTokens(<<"1", "default">>),
                              SwitchTokens(<<"1", "2">>) }
    [] OTHER             -> { <<>> }

\* The tokens of node n of the walked tree: a call is written `name()` or,
\* through a pointer, `(*name)()`.
ChildTokens(n) ==
  IF kind[n] = "CALL_EXPR"
    THEN { <<spelling[n], "(", ")">>,
           <<"(", "*", spelling[n], ")", "(", ")">> }
    ELSE NodeTokens(kind[n])

\* What cursor.get_tokens() can yield for a cursor of kind k.
CursorTokens(k) ==
  CASE k = "IF_STMT"         -> IfTokenStreams
    [] k = "SWITCH_STMT"     -> SwitchTokenStreams
    [] k = "BINARY_OPERATOR" -> BinaryTokenStreams
    [] OTHER                 -> { <<>> }


\* ------------------------------------------------ CCLangVisitor (accumulator)
\* CCLangVisitor.__init__: the fields the modelled callbacks read and write.
CCLangVisitor(name) ==
  [ type |-> "CCLangVisitor", name |-> name, conditions |-> 0, loops |-> 0,
    switches |-> <<>>, mul |-> FALSE, div |-> FALSE,
    calls |-> <<>>, indirects |-> <<>>, recursive |-> FALSE,
    constants |-> {}, externals |-> {},
    local_vars |-> {}, globals_uses |-> {},
    global_variables |-> [type |-> "set", value |-> {}] ]

\* The visit_* methods of CCLangVisitor that the modelled kinds can reach.
CCLangVisitorMethods ==
  { "LITERAL", "ENUM_DECL", "IF_STMT", "CALL_EXPR", "WHILE_STMT", "FOR_STMT",
    "DO_STMT", "SWITCH_STMT", "BINARY_OPERATOR", "PARM_DECL", "VAR_DECL",
    "DECL_REF_EXPR" }

\* A mutant of IfScan: the scan does not stop at the closing parenthesis.
RECURSIVE IfScanNoBreak(_, _, _, _, _)
IfScanNoBreak(tokens, i, par_level, tmp_conds, at_least_one_parenthesis) ==
  IF i > Len(tokens) THEN tmp_conds
  ELSE LET clean_token == tokens[i] IN
    IF clean_token = "("
      THEN IfScanNoBreak(tokens, i + 1, par_level + 1,
                  IF at_least_one_parenthesis THEN tmp_conds ELSE tmp_conds + 1,
                  TRUE)
    ELSE IF clean_token = ")"
      THEN IfScanNoBreak(tokens, i + 1, par_level - 1, tmp_conds,
                         at_least_one_parenthesis)
    ELSE IF clean_token \in {"||", "&&"}
      THEN IfScanNoBreak(tokens, i + 1, par_level, tmp_conds + 1,
                         at_least_one_parenthesis)
    ELSE IfScanNoBreak(tokens, i + 1, par_level, tmp_conds,
                       at_least_one_parenthesis)

\* The token loop of visit_IF_STMT from token i on; its value is tmp_conds
\* when the loop ends (at the break, or with the tokens exhausted).
RECURSIVE IfScan(_, _, _, _, _)
IfScan(tokens, i, par_level, tmp_conds, at_least_one_parenthesis) ==
  IF i > Len(tokens) THEN tmp_conds
  ELSE LET clean_token == tokens[i] IN
    IF clean_token = "("
      THEN IfScan(tokens, i + 1, par_level + 1,
                  IF at_least_one_parenthesis THEN tmp_conds ELSE tmp_conds + 1,
                  TRUE)
    ELSE IF clean_token = ")"
      THEN IF par_level - 1 = 0 /\ at_least_one_parenthesis
             THEN tmp_conds
             ELSE IfScan(tokens, i + 1, par_level - 1, tmp_conds,
                         at_least_one_parenthesis)
    ELSE IF clean_token \in {"||", "&&"}
      THEN IfScan(tokens, i + 1, par_level, tmp_conds + 1,
                  at_least_one_parenthesis)
    ELSE IfScan(tokens, i + 1, par_level, tmp_conds, at_least_one_parenthesis)

\* CCLangVisitor.visit_IF_STMT
visit_IF_STMT(self, tokens) ==
  [self EXCEPT !.conditions = @ + IfScan(tokens, 1, 0, 0, FALSE)]

\* The token loop of visit_SWITCH_STMT from token i on; its value is the
\* entry appended to self.switches. clean_token is assigned by keyword
\* tokens only (line 262).
RECURSIVE SwitchScan(_, _, _, _, _, _)
SwitchScan(tokens, i, cases, next_case, default, clean_token) ==
  IF i > Len(tokens) THEN <<Cardinality(cases) + default, cases>>
  ELSE LET token == tokens[i]
           tkind == TokenKindOf(token)
           ct    == IF tkind = "KEYWORD" THEN token ELSE clean_token
       IN
    IF tkind \notin {"KEYWORD", "LITERAL"}
      THEN SwitchScan(tokens, i + 1, cases, next_case, default, clean_token)
    ELSE IF tkind = "KEYWORD" /\ ct = "case"
      THEN SwitchScan(tokens, i + 1, cases, TRUE, default, ct)
    ELSE IF tkind = "KEYWORD" /\ ct = "default"
      THEN SwitchScan(tokens, i + 1, cases, next_case, 1, ct)
    ELSE IF next_case
      THEN SwitchScan(tokens, i + 1, cases \cup {ct}, FALSE, default, ct)
    ELSE SwitchScan(tokens, i + 1, cases, next_case, default, ct)

\* CCLangVisitor.visit_SWITCH_STMT; list(cases) is kept as the set it lists.
visit_SWITCH_STMT(self, tokens) ==
  [self EXCEPT !.switches = Append(@, SwitchScan(tokens, 1, {}, FALSE, 0, ""))]

\* CCLangVisitor.visit_BINARY_OPERATOR
RECURSIVE visit_BINARY_OPERATOR(_, _)
visit_BINARY_OPERATOR(self, tokens) ==
  IF tokens = <<>> THEN self
  ELSE LET t == Head(tokens)
           next == IF TokenKindOf(t) # "PUNCTUATION" THEN self
                   ELSE IF t = "*" THEN [self EXCEPT !.mul = TRUE]
                   ELSE IF t = "/" THEN [self EXCEPT !.div = TRUE]
                   ELSE IF t \in CONDITIONAL_OPERATORS
                     THEN [self EXCEPT !.conditions = @ + 1]
                   ELSE self
       IN visit_BINARY_OPERATOR(next, Tail(tokens))

\* CCLangVisitor.visit_loop
visit_loop(self) == [self EXCEPT !.loops = @ + 1]

\* CCLangVisitor.visit_WHILE_STMT / visit_FOR_STMT / visit_DO_STMT
visit_WHILE_STMT(self) == visit_loop(self)
visit_FOR_STMT(self) == visit_loop(self)

\* A mutant of visit_DO_STMT: a do statement is not counted.
visit_DO_STMT_uncounted(self) == self

visit_DO_STMT(self) == visit_loop(self)

\* A Python str as the sequence of its characters, for the names the model
\* uses.
chars(name) ==
  CASE name = ""   -> <<>>
    [] name = "gv" -> <<"g", "v">>
    [] OTHER       -> <<name>>

\* a in b for two Python strs: a occurs in b as a substring.
IsSubstring(a, b) ==
  \E i \in 0 .. Len(b) - Len(a) : SubSeq(b, i + 1, i + Len(a)) = a

\* name in container (line 298): membership when the container is a set, the
\* substring test when it is a str.
contains(container, name) ==
  IF container.type = "set" THEN name \in container.value
  ELSE IsSubstring(chars(name), chars(container.value))

\* A mutant of visit_CALL_EXPR: any call makes the function recursive.
visit_CALL_EXPR_any_call(self, node) ==
  LET token == IF node.tokens = <<>> THEN "" ELSE Head(node.tokens)
      indirect == token # "" /\ token # node.spelling
  IN [self EXCEPT
        !.recursive = TRUE,
        !.indirects = IF indirect THEN Append(@, node.spelling) ELSE @,
        !.calls = [n \in DOMAIN self.calls \cup {node.spelling} |->
                     IF n = node.spelling
                       THEN (IF n \in DOMAIN self.calls THEN self.calls[n] + 1 ELSE 1)
                       ELSE self.calls[n]]]

\* CCLangVisitor.visit_CALL_EXPR
visit_CALL_EXPR(self, node) ==
  LET token == IF node.tokens = <<>> THEN "" ELSE Head(node.tokens)
      indirect == token # "" /\ token # node.spelling
  IN [self EXCEPT
        !.recursive = IF node.spelling = self.name THEN TRUE ELSE @,
        !.indirects = IF indirect THEN Append(@, node.spelling) ELSE @,
        !.calls = [n \in DOMAIN self.calls \cup {node.spelling} |->
                     IF n = node.spelling
                       THEN (IF n \in DOMAIN self.calls THEN self.calls[n] + 1 ELSE 1)
                       ELSE self.calls[n]]]

\* CCLangVisitor.visit_PARM_DECL / visit_VAR_DECL
visit_PARM_DECL(self, node) == [self EXCEPT !.local_vars = @ \cup {node.spelling}]
visit_VAR_DECL(self, node) == [self EXCEPT !.local_vars = @ \cup {node.spelling}]

\* CCLangVisitor.visit_DECL_REF_EXPR
visit_DECL_REF_EXPR(self, node) ==
  LET name == node.spelling IN
  IF name \notin self.local_vars /\ contains(self.global_variables, name)
    THEN [self EXCEPT !.globals_uses = @ \cup {name}]
    ELSE self

\* ------------------------------------------------------- visit_LITERAL
\* A token of a literal cursor is [kind, spelling], the spelling being the
\* sequence of its characters.
\* str.startswith / str.endswith for a one-character argument
starts_with_char(s, c) == s # <<>> /\ s[1] = c
ends_with_char(s, c) == s # <<>> /\ s[Len(s)] = c

\* s.find(c) > -1
found(s, c) == \E i \in DOMAIN s : s[i] = c

\* str.strip(c): every leading and every trailing c is dropped.
RECURSIVE strip(_, _)
strip(s, c) ==
  IF starts_with_char(s, c) THEN strip(Tail(s), c)
  ELSE IF ends_with_char(s, c) THEN strip(SubSeq(s, 1, Len(s) - 1), c)
  ELSE s

\* get_printable_value (base_support): the text with its escape sequences
\* decoded; of the escapes the model has \n, which becomes the line feed LF.
RECURSIVE get_printable_value(_)
get_printable_value(s) ==
  IF s = <<>> THEN <<>>
  ELSE IF Len(s) >= 2 /\ s[1] = "\\" /\ s[2] = "n"
    THEN <<"LF">> \o get_printable_value(SubSeq(s, 3, Len(s)))
  ELSE <<Head(s)>> \o get_printable_value(Tail(s))

\* The token loop of visit_LITERAL. A floating or any other non-string
\* literal token ends the loop at `break` with nothing recorded (the value
\* simple_eval gives is dropped); a string token is recorded and the loop
\* goes on.
RECURSIVE LiteralScan(_, _, _)
LiteralScan(self, k, tokens) ==
  IF tokens = <<>> THEN self
  ELSE LET token == Head(tokens)
           tmp   == token.spelling
       IN
    IF token.kind # "LITERAL" THEN LiteralScan(self, k, Tail(tokens))
    ELSE IF k = "FLOATING_LITERAL" THEN self
    ELSE IF k = "STRING_LITERAL" \/ found(tmp, "\"") \/ found(tmp, "'")
      THEN LET quoted == starts_with_char(tmp, "\"") /\ ends_with_char(tmp, "\"")
               text   == IF quoted THEN get_printable_value(strip(tmp, "\"")) ELSE tmp
           IN LiteralScan(
                [self EXCEPT !.externals = IF quoted THEN @ \cup {text} ELSE @,
                             !.constants = @ \cup {text}], k, Tail(tokens))
    ELSE self

\* CCLangVisitor.visit_LITERAL
visit_LITERAL(self, node) == LiteralScan(self, node.kind, node.tokens)

\* -------------------------------------------------- is_inline, is_static
\* Here a token is the sequence of the characters of its spelling.
\* INLINE_NAMES (line 35)
INLINE_NAMES ==
  { <<"i", "n", "l", "i", "n", "e">>,
    <<"_", "_", "i", "n", "l", "i", "n", "e">>,
    <<"_", "_", "i", "n", "l", "i", "n", "e", "_", "_">>,
    <<"_", "_", "f", "o", "r", "c", "e", "i", "n", "l", "i", "n", "e">>,
    <<"a", "l", "w", "a", "y", "s", "_", "i", "n", "l", "i", "n", "e">> }

\* The token loop of is_inline: a token in which one of INLINE_NAMES occurs
\* (tkn.find(name) > -1) gives True; the loop ends at the token `{`.
RECURSIVE InlineScan(_)
InlineScan(tokens) ==
  IF tokens = <<>> THEN FALSE
  ELSE IF \E name \in INLINE_NAMES : IsSubstring(name, Head(tokens)) THEN TRUE
  ELSE IF Head(tokens) = <<"{">> THEN FALSE
  ELSE InlineScan(Tail(tokens))

\* is_inline(cursor)
is_inline(node) ==
  IF node.kind # "FUNCTION_DECL" THEN FALSE ELSE InlineScan(node.tokens)

\* is_static(cursor)
is_static(node) ==
  IF node.kind # "FUNCTION_DECL" THEN FALSE
  ELSE IF node.tokens = <<>> THEN FALSE
  ELSE Head(node.tokens) = <<"s", "t", "a", "t", "i", "c">>

\* ----------------------------------------------------------- handler object
\* The outcomes of a method of a generic handler: it does not exist, or it
\* returns a false value (None), or it returns a true value.
Outcomes == {"absent", "falsy", "truthy"}

\* method_name in dir(obj); the method visit_<m> is named by m.
HasMethod(o, m) ==
  IF o.type = "CCLangVisitor" THEN m \in CCLangVisitorMethods
  ELSE m \in DOMAIN o.ret /\ o.ret[m] # "absent"

\* func(children) for the cursor `node` = [kind, spelling, tokens]: the
\* handler after the call and whether the call returned
\* a true value. Of CCLangVisitor's methods only visit_ENUM_DECL returns
\* True; the others fall off their end.
Invoke(o, m, node) ==
  IF o.type = "CCLangVisitor"
    THEN CASE m = "IF_STMT"         -> [obj |-> visit_IF_STMT(o, node.tokens), result |-> FALSE]
           [] m = "SWITCH_STMT"     -> [obj |-> visit_SWITCH_STMT(o, node.tokens), result |-> FALSE]
           [] m = "BINARY_OPERATOR" -> [obj |-> visit_BINARY_OPERATOR(o, node.tokens), result |-> FALSE]
           [] m = "WHILE_STMT"      -> [obj |-> visit_WHILE_STMT(o), result |-> FALSE]
           [] m = "FOR_STMT"        -> [obj |-> visit_FOR_STMT(o), result |-> FALSE]
           [] m = "DO_STMT"         -> [obj |-> visit_DO_STMT(o), result |-> FALSE]
           [] m = "ENUM_DECL"       -> [obj |-> o, result |-> TRUE]
           [] m = "LITERAL"         -> [obj |-> visit_LITERAL(o, node), result |-> FALSE]
           [] m = "CALL_EXPR"       -> [obj |-> visit_CALL_EXPR(o, node), result |-> FALSE]
           [] m = "PARM_DECL"       -> [obj |-> visit_PARM_DECL(o, node), result |-> FALSE]
           [] m = "VAR_DECL"        -> [obj |-> visit_VAR_DECL(o, node), result |-> FALSE]
           [] m = "DECL_REF_EXPR"   -> [obj |-> visit_DECL_REF_EXPR(o, node), result |-> FALSE]
           [] OTHER                 -> [obj |-> o, result |-> FALSE]
    ELSE [obj |-> o, result |-> o.ret[m] = "truthy"]


\* ----------------------------------------------------- CLangParser.visitor
\* A mutant of Dispatch: the walker descends whatever the callbacks return.
DispatchAlwaysDescend(o, k, node) ==
  LET has1 == HasMethod(o, k)
      r1   == IF has1 THEN Invoke(o, k, node) ELSE [obj |-> o, result |-> FALSE]
      lit  == InLiteralRange(k) /\ HasMethod(r1.obj, "LITERAL")
      r2   == IF lit THEN Invoke(r1.obj, "LITERAL", node)
              ELSE [obj |-> r1.obj, result |-> FALSE]
  IN [ obj |-> r2.obj,
       calls |-> (IF has1 THEN << <<k, r1.result>> >> ELSE <<>>)
                 \o (IF lit THEN << <<"LITERAL", r2.result>> >> ELSE <<>>),
       descend |-> TRUE ]

\* A mutant of Dispatch: the literal callback is tried only for a node that
\* has no kind-specific callback.
DispatchLiteralElse(o, k, node) ==
  LET has1 == HasMethod(o, k)
      r1   == IF has1 THEN Invoke(o, k, node) ELSE [obj |-> o, result |-> FALSE]
      lit  == ~has1 /\ InLiteralRange(k) /\ HasMethod(r1.obj, "LITERAL")
      r2   == IF lit THEN Invoke(r1.obj, "LITERAL", node)
              ELSE [obj |-> r1.obj, result |-> FALSE]
  IN [ obj |-> r2.obj,
       calls |-> (IF has1 THEN << <<k, r1.result>> >> ELSE <<>>)
                 \o (IF lit THEN << <<"LITERAL", r2.result>> >> ELSE <<>>),
       descend |-> ~(r1.result \/ r2.result) ]

\* The body of the loop of CLangParser.visitor for one child `node` of kind k
\* (lines 354-371): the kind-named callback when the handler has it, and,
\* unless that one returned a true value (`continue`), the literal callback
\* for a kind in the literal range; the walker descends into the child
\* unless one of the two returned a true value.
Dispatch(o, k, node) ==
  LET has1 == HasMethod(o, k)
      r1   == IF has1 THEN Invoke(o, k, node) ELSE [obj |-> o, result |-> FALSE]
      lit  == ~r1.result /\ InLiteralRange(k) /\ HasMethod(r1.obj, "LITERAL")
      r2   == IF lit THEN Invoke(r1.obj, "LITERAL", node)
              ELSE [obj |-> r1.obj, result |-> FALSE]
  IN [ obj |-> r2.obj,
       calls |-> (IF has1 THEN << <<k, r1.result>> >> ELSE <<>>)
                 \o (IF lit THEN << <<"LITERAL", r2.result>> >> ELSE <<>>),
       descend |-> ~(r1.result \/ r2.result) ]

\* One iteration of `for children in cursor.get_children()` in the innermost
\* active call of visitor, up to its `continue` or its recursive call.
VisitorChild ==
  /\ stack # <<>>
  /\ Head(stack) # <<>>
  /\ LET children == Head(Head(stack))
         rest     == Tail(Head(stack))
     IN \E tokens \in ChildTokens(children) :
          LET d == Dispatch(obj, kind[children],
                            [ kind |-> kind[children],
                              spelling |-> spelling[children],
                              tokens |-> tokens ]) IN
          /\ total_elements' = total_elements + 1
          /\ dispatched' = Append(dispatched, children)
          /\ invoked' = invoked \o
               [i \in 1 .. Len(d.calls) |-> <<children, d.calls[i][1], d.calls[i][2]>>]
          /\ obj' = d.obj
          /\ stack' = IF d.descend
                        THEN <<get_children(children), rest>> \o Tail(stack)
                        ELSE <<rest>> \o Tail(stack)
  /\ UNCHANGED <<parent, kind, spelling, scanVars, exportVars>>

\* The loop of the innermost active call has no child left: the call returns.
VisitorReturn ==
  /\ stack # <<>>
  /\ Head(stack) = <<>>
  /\ stack' = Tail(stack)
  /\ UNCHANGED <<parent, kind, spelling, obj, total_elements, dispatched, invoked,
                 scanVars, exportVars>>


\* ------------------------------------------------------------------ paths
\* A path is the sequence of its characters.
\* os.getcwd(): the working directory of the export run, /w.
cwd == <<"/", "w">>

\* str.startswith
startswith(s, prefix) ==
  Len(prefix) <= Len(s) /\ SubSeq(s, 1, Len(prefix)) = prefix

\* str.rstrip('/')
RECURSIVE rstrip_slash(_)
rstrip_slash(s) ==
  IF s # <<>> /\ s[Len(s)] = "/" THEN rstrip_slash(SubSeq(s, 1, Len(s) - 1)) ELSE s

\* os.path.dirname (posixpath): the path up to its last slash, trailing
\* slashes stripped unless it consists of slashes only.
dirname(path) ==
  LET slashes == { i \in 1 .. Len(path) : path[i] = "/" }
      i == IF slashes = {} THEN 0
           ELSE CHOOSE j \in slashes : \A k \in slashes : k <= j
      head == SubSeq(path, 1, i)
  IN IF rstrip_slash(head) # <<>> THEN rstrip_slash(head) ELSE head

\* str.split('/')
RECURSIVE split(_, _, _)
split(s, cur, acc) ==
  IF s = <<>> THEN Append(acc, cur)
  ELSE IF Head(s) = "/" THEN split(Tail(s), <<>>, Append(acc, cur))
  ELSE split(Tail(s), Append(cur, Head(s)), acc)

\* The loop of posixpath.normpath over the path's components.
RECURSIVE new_comps(_, _, _)
new_comps(comps, initial_slashes, acc) ==
  IF comps = <<>> THEN acc
  ELSE LET comp == Head(comps) IN
    IF comp = <<>> \/ comp = <<".">>
      THEN new_comps(Tail(comps), initial_slashes, acc)
    ELSE IF \/ comp # <<".", ".">>
            \/ (~initial_slashes /\ acc = <<>>)
            \/ (acc # <<>> /\ acc[Len(acc)] = <<".", ".">>)
      THEN new_comps(Tail(comps), initial_slashes, Append(acc, comp))
    ELSE IF acc # <<>>
      THEN new_comps(Tail(comps), initial_slashes, SubSeq(acc, 1, Len(acc) - 1))
    ELSE new_comps(Tail(comps), initial_slashes, acc)

\* '/'.join
RECURSIVE join(_)
join(comps) ==
  IF comps = <<>> THEN <<>>
  ELSE IF Len(comps) = 1 THEN comps[1]
  ELSE comps[1] \o <<"/">> \o join(Tail(comps))

\* posixpath.normpath
normpath(path) ==
  LET initial_slashes == path # <<>> /\ path[1] = "/"
      body == join(new_comps(split(path, <<>>, <<>>), initial_slashes, <<>>))
      r == IF initial_slashes THEN <<"/">> \o body ELSE body
  IN IF r = <<>> THEN <<".">> ELSE r

\* os.path.realpath: the absolute normalised path (the modelled files are no
\* symbolic links).
realpath(path) ==
  IF path # <<>> /\ path[1] = "/" THEN normpath(path)
  ELSE normpath(cwd \o <<"/">> \o path)

\* --------------------------------------------------- the front-end's trees
\* Largest number of top-level declarations of a translation unit.
MaxElems == 2

\* The configured source files /w/a and /w/b, in the order they are exported.
SourceFiles == << <<"/", "w", "/", "a">>, <<"/", "w", "/", "b">> >>

\* The header /w/h as the front-end names it when it is found through an
\* absolute include directory, and through -I. ; and a system header /u/s.
HeaderAbsolute == <<"/", "w", "/", "h">>
HeaderRelative == <<".", "/", "h">>
HeaderOutside == <<"/", "u", "/", "s">>

\* A header of the directory /w2, next to the working directory.
HeaderSibling == <<"/", "w", "2", "/", "h">>

\* element.location.file is None
NoFile == <<>>

\* A type spelling is the sequence of its parts: "struct S" is
\* <<"struct", "S">>.
Decl(k, file, name, first_token, extent, children) ==
  [ kind |-> k, file |-> file, spelling |-> name, first_token |-> first_token,
    extent |-> extent, children |-> children,
    type |-> IF k \in {"STRUCT_DECL", "UNION_DECL"} THEN <<first_token, name>>
             ELSE <<first_token>> ]

\* A field declaration: its type spelling, its name, whether it is a
\* bit-field, its children.
FieldDecl(type, name, bitfield, children) ==
  [ kind |-> "FIELD_DECL", type |-> type, spelling |-> name,
    bitfield |-> bitfield, children |-> children ]

PlainField == FieldDecl(<<"int">>, "a", FALSE, <<>>)

\* The top-level declarations a translation unit of source file f can hold,
\* in the order the front-end gives them:
\* the header's struct S (under either name of the header), a struct of a
\* system header, a struct of a header of /w2, two variables of f, two
\* functions of f (one on lines 1-2, one on line 3), and an implicit typedef
\* that has no file.
TopLevel(f) ==
  << Decl("TYPEDEF_DECL", NoFile, "__int128_t", "", <<0, 0>>, <<>>),
     Decl("STRUCT_DECL", HeaderAbsolute, "S", "struct", <<1, 1>>, <<PlainField>>),
     Decl("STRUCT_DECL", HeaderRelative, "S", "struct", <<1, 1>>, <<PlainField>>),
     Decl("STRUCT_DECL", HeaderOutside, "U", "struct", <<1, 1>>, <<PlainField>>),
     Decl("STRUCT_DECL", HeaderSibling, "T", "struct", <<1, 1>>, <<PlainField>>),
     Decl("VAR_DECL", f, "g", "int", <<1, 1>>, <<>>),
     Decl("VAR_DECL", f, "h", "int", <<2, 2>>, <<>>),
     Decl("FUNCTION_DECL", f, "f", "int", <<1, 2>>, <<>>),
     Decl("FUNCTION_DECL", f, "k", "int", <<3, 3>>, <<>>) >>

\* tu.cursor.get_children(): some of those declarations, in that order, the
\* header /w/h under one name.
TranslationUnits(f) ==
  { [j \in DOMAIN picked |-> TopLevel(f)[picked[j]]] : picked \in
      { SelectSeq([i \in DOMAIN TopLevel(f) |-> i], LAMBDA i : i \in I) : I \in
          { J \in SUBSET DOMAIN TopLevel(f) :
              /\ Cardinality(J) <= MaxElems
              /\ ~(\E i, j \in J :
                     /\ TopLevel(f)[i].file = HeaderAbsolute
                     /\ TopLevel(f)[j].file = HeaderRelative) } } }

\* tu.diagnostics: the severities of the diagnostics of a parse.
Diagnostics == { <<>>, <<"warning">>, <<"error">>, <<"fatal">> }

\* CLangParser.parse / parse_buffer: the tree and the counted diagnostics.
CLangParser(tu, diags, source) ==
  [ tu |-> tu, source |-> source,
    warnings |-> CountIn(diags, {"warning"}),
    errors |-> CountIn(diags, {"error"}),
    fatals |-> CountIn(diags, {"fatal"}) ]

NoParser == CLangParser(<<>>, <<>>, "none")

\* The files on disk: /w/a has two lines, /w/b has three.
FileLines(f) ==
  IF f = SourceFiles[1] THEN [i \in 1 .. 2 |-> i] ELSE [i \in 1 .. 3 |-> i]

\* What open(filename, "rb").readlines() can do: raise IOError (the file is
\* missing or was renamed since the parse), or yield the file's lines.
OpenOutcomes(f) ==
  { [ok |-> FALSE, lines |-> <<>>], [ok |-> TRUE, lines |-> FileLines(f)] }

\* The entries export_one appends for the groups CMacroExtractor.extract
\* returns (lines 693-697): /w/a defines one group of macros, /w/b none.
MacroEntries(f) ==
  IF f = SourceFiles[1] THEN << <<"enum", "M", << <<"M_A">> >> >> >> ELSE <<>>

\* ------------------------------------------------------ type reconstruction
\* A result that Python code gives as None or as a value is the empty
\* sequence or the sequence of the value's parts. A reconstructed text is
\* the sequence of its lines, a line the sequence of its words.

\* The part of the type spelling re.findall(r'\[[A-Za-z0-9]*\]') matches.
ArraySuffixes == {"[2]"}

\* CClangExporter.is_array
is_array(field) == \E i \in DOMAIN field.type : field.type[i] \in ArraySuffixes

\* type_name.find(part): the position of the first part that is one of
\* `parts` (there is one wherever the code calls it).
find(type_name, parts) ==
  CHOOSE i \in DOMAIN type_name :
    /\ type_name[i] \in parts
    /\ \A j \in 1..(i - 1) : type_name[j] \notin parts

\* re.findall(r'\(\*+\)', type_name): the spelling holds `(*)`, written
\* here as the part "(*" followed by the part ")(".
is_function_pointer(type_name) ==
  \E i \in 1..(Len(type_name) - 1) : type_name[i] = "(*" /\ type_name[i + 1] = ")("

\* CClangExporter.is_primitive_field
is_primitive_field(field) ==
  IF field.kind # "FIELD_DECL" THEN FALSE
  ELSE IF /\ field.children # <<>>
          /\ \E i \in DOMAIN field.children :
               field.children[i].kind \in {"STRUCT_DECL", "UNION_DECL"}
    THEN FALSE
  ELSE TRUE

\* CClangExporter.is_struct
is_struct(field) ==
  IF field.kind = "STRUCT_DECL" THEN TRUE
  ELSE field.children # <<>> /\ field.children[1].kind = "STRUCT_DECL"

\* CClangExporter.is_union
is_union(field) ==
  IF field.kind = "UNION_DECL" THEN TRUE
  ELSE field.children # <<>> /\ field.children[1].kind = "UNION_DECL"

\* "%s %s;" % (src, name) and "%s %s%s;" % (src, name, suffix): the words
\* are added to the last line of src.
with_declarator(src, words) ==
  SubSeq(src, 1, Len(src) - 1) \o << src[Len(src)] \o words >>

\* The words after the nested body (lines 520-524 and 536-540).
declarator(field) ==
  IF is_array(field)
    THEN <<field.spelling>>
           \o SubSeq(field.type, find(field.type, ArraySuffixes), Len(field.type))
           \o <<";">>
    ELSE <<field.spelling, ";">>

\* `part in type_name`, for a part of the spelling.
has_part(type_name, part) == \E i \in DOMAIN type_name : type_name[i] = part

RECURSIVE parse_field(_), field_lines(_), parse_union(_, _), parse_struct(_, _)

\* CClangExporter.parse_field: None, or (name, text).
parse_field(field) ==
  LET field_name == field.spelling
      type_name  == field.type
  IN
  IF is_primitive_field(field) THEN
    IF field.kind = "PACKED_ATTR" THEN <<>>
    ELSE IF field.bitfield THEN
      LET bit_length == field.children[1].tokens[1] IN
      <<field_name, << type_name \o <<field_name, ":", bit_length, ";">> >> >>
    ELSE IF is_array(field) THEN
      LET pos == find(type_name, ArraySuffixes) IN
      <<field_name, << SubSeq(type_name, 1, pos - 1) \o <<field_name>>
                         \o SubSeq(type_name, pos, Len(type_name)) \o <<";">> >> >>
    ELSE IF is_function_pointer(type_name) THEN
      LET pos == find(type_name, {")("}) IN
      <<field_name, << SubSeq(type_name, 1, pos - 1) \o <<field_name>>
                         \o SubSeq(type_name, pos, Len(type_name)) \o <<";">> >> >>
    ELSE <<field_name, << type_name \o <<field_name, ";">> >> >>
  ELSE IF is_struct(field) THEN
    LET struct == IF field.kind = "FIELD_DECL"
                    THEN parse_struct(field.children[1], TRUE)
                    ELSE parse_struct(field, FALSE)
    IN IF struct = <<>> THEN <<>>
       ELSE <<field.spelling, with_declarator(struct[2], declarator(field))>>
  ELSE IF is_union(field) THEN
    LET union == IF field.kind = "FIELD_DECL"
                   THEN parse_union(field.children[1], TRUE)
                   ELSE parse_union(field, TRUE)
    IN IF union = <<>> THEN <<>>
       ELSE <<field.spelling, with_declarator(union[2], declarator(field))>>
  ELSE <<>>

\* The loop of parse_struct and parse_union over the children (lines 556-561
\* and 579-584): the texts of those parse_field gives a pair for.
field_lines(fields) ==
  IF fields = <<>> THEN <<>>
  ELSE (IF parse_field(Head(fields)) = <<>> THEN <<>>
        ELSE parse_field(Head(fields))[2]) \o field_lines(Tail(fields))

\* CClangExporter.parse_union: None for an anonymous union that is not
\* nested, else (name, the lines of the declaration).
parse_union(union, is_nested) ==
  LET is_anon == has_part(union.type, "(anonymous ") \/ (union.spelling = "") IN
  IF is_anon /\ ~is_nested THEN <<>>
  ELSE << union.spelling,
          << <<"union", union.spelling>>, <<"{">> >>
            \o field_lines(union.children)
            \o << IF is_anon THEN <<"}">> ELSE <<"};">> >> >>

\* CClangExporter.parse_struct: None for an anonymous struct that is not
\* nested, else (name, the lines of the declaration).
parse_struct(struct, is_nested) ==
  LET is_anon == has_part(struct.type, "(anonymous ") \/ (struct.spelling = "") IN
  IF is_anon /\ ~is_nested THEN <<>>
  ELSE << struct.spelling,
          << <<"struct", struct.spelling>>, <<"{">> >>
            \o field_lines(struct.children)
            \o << IF is_anon THEN <<"}">> ELSE <<"};">> >> >>

\* The type branch of export_one (lines 711-737) for one element: the entries
\* it appends to src_definitions, and whether it ends the iteration with
\* `continue` because the reconstruction gave nothing.
reconstruct(element) ==
  IF element.kind = "STRUCT_DECL"
    THEN LET struct == parse_struct(element, FALSE) IN
         IF struct = <<>> THEN [entries |-> <<>>, continue |-> TRUE]
         ELSE [entries |-> << <<"struct", struct[1], struct[2]>> >>, continue |-> FALSE]
  ELSE IF element.kind = "UNION_DECL"
    THEN LET union == parse_union(element, FALSE) IN
         IF union = <<>> THEN [entries |-> <<>>, continue |-> TRUE]
         ELSE [entries |-> << <<"union", union[1], union[2]>> >>, continue |-> FALSE]
    ELSE [entries |-> <<>>, continue |-> FALSE]

\* ------------------------------------------------------- strip_macros
\* A line is the sequence of its characters; TAB, CR and LF stand for the
\* tabulation, carriage return and line feed characters.
RECURSIVE join_lines(_)
join_lines(ret) ==
  IF ret = <<>> THEN <<>>
  ELSE IF Len(ret) = 1 THEN ret[1]
  ELSE ret[1] \o <<"LF">> \o join_lines(Tail(ret))

\* The body of the loop of strip_macros for one line of readlines().
strip_line(line0) ==
  LET line == strip(strip(line0, "CR"), "LF") IN
  IF /\ ~IsSubstring(<<"#", "i", "n", "c", "l", "u", "d", "e">>, line)
     /\ starts_with_char(strip(strip(strip(line, " "), "TAB"), " "), "#")
    THEN <<"/", "/", " ", "s", "t", "r", "i", "p", "p", "e", "d", ":", " ">> \o line
    ELSE line

\* CClangExporter.strip_macros, for the lines readlines() gave.
strip_macros(lines) == join_lines([i \in DOMAIN lines |-> strip_line(lines[i])])

\* ----------------------------------------------- CClangExporter.export_one
\* SCAN_ELEMENTS (lines 37-39)
SCAN_ELEMENTS ==
  {"FUNCTION_DECL", "FUNCTION_TEMPLATE", "CXX_METHOD", "CONSTRUCTOR",
   "DESTRUCTOR", "OBJC_INSTANCE_METHOD_DECL"}

\* The loop of lines 669-673: the top-level elements that are not located
\* in a file other than filename.
RECURSIVE things(_, _)
things(tu, fname) ==
  IF tu = <<>> THEN 0
  ELSE (IF Head(tu).file # NoFile /\ Head(tu).file # fname THEN 0 ELSE 1)
       + things(Tail(tu), fname)

\* A mutant of needs_recovery: only fatal diagnostics count.
needs_recovery_fatal_only(p, fname) ==
  p.fatals > 0 /\ things(p.tu, fname) = 0

\* Lines 668-675: errors happened and not a single thing was discovered.
needs_recovery(p, fname) ==
  (p.fatals > 0 \/ p.errors > 0) /\ things(p.tu, fname) = 0

\* A mutant of next_ea: the identifier is the count itself.
next_ea_count(rows) == Len(rows)

\* (select count(ea)+1 from functions), line 773
next_ea(rows) == Len(rows) + 1

\* lines[start_line-1:end_line] for start_line >= 1 (line 392)
slice(lines, start_line, end_line) ==
  SubSeq(lines, start_line, IF end_line < Len(lines) THEN end_line ELSE Len(lines))

\* parser.visitor(obj, cursor=element) on a fresh CCLangVisitor (lines
\* 754-758); the modelled top-level functions have empty bodies.
accumulate(element) == CCLangVisitor(element.spelling)

\* Lines 743-744: self.global_variables = name.
record_variable(gv, name) == [type |-> "str", value |-> name]

InitExport ==
  /\ header_files = {}
  /\ src_definitions = <<>>
  /\ global_variables = [type |-> "set", value |-> {}]
  /\ source_cache = <<>>
  /\ functions = <<>>
  /\ pc = "idle"
  /\ filename = NoFile
  /\ parser = NoParser
  /\ state = "Primary"
  /\ dones = {}
  /\ tu_children = <<>>
  /\ exported = 0
  /\ seen_variables = {}
  /\ parses = 0
  /\ tx = <<>>
  /\ writer = 0

\* export_one is called for the next configured file: the primary parse
\* (lines 661-665).
ParsePrimary ==
  /\ pc = "idle"
  /\ exported < Len(SourceFiles)
  /\ filename' = SourceFiles[exported + 1]
  /\ \E tu \in TranslationUnits(filename'), diags \in Diagnostics :
       parser' = CLangParser(tu, diags, "file")
  /\ state' = "Primary"
  /\ parses' = 1
  /\ pc' = "parsed"
  /\ UNCHANGED <<header_files, src_definitions, global_variables, source_cache,
                 functions, dones, tu_children, exported, seen_variables>>
  /\ UNCHANGED <<walkVars, scanVars, tx, writer>>

\* Lines 675-683: the parse was unproductive; the file is parsed again from
\* the buffer strip_macros built.
RecoverParse ==
  /\ pc = "parsed"
  /\ state = "Primary"
  /\ needs_recovery(parser, filename)
  /\ \E tu \in TranslationUnits(filename), diags \in Diagnostics :
       parser' = CLangParser(tu, diags, "buffer")
  /\ state' = "Recovered"
  /\ parses' = parses + 1
  /\ UNCHANGED <<header_files, src_definitions, global_variables, source_cache,
                 functions, pc, filename, dones, tu_children, exported,
                 seen_variables>>
  /\ UNCHANGED <<walkVars, scanVars, tx, writer>>

\* Lines 685-700: the transaction begins, the macro groups are appended and
\* the loop over the top-level elements of parser.tu starts. From here on
\* export_one reads the parser through that loop only.
BeginExtract ==
  /\ pc = "parsed"
  /\ state = "Recovered" \/ ~needs_recovery(parser, filename)
  /\ src_definitions' = src_definitions \o MacroEntries(filename)
  /\ dones' = {}
  /\ tu_children' = parser.tu
  /\ parser' = NoParser
  /\ pc' = "extract"
  /\ UNCHANGED <<header_files, global_variables, source_cache, functions,
                 filename, state, exported, seen_variables, parses>>
  /\ UNCHANGED <<walkVars, scanVars, tx, writer>>

\* One iteration of the loop over the top-level elements (lines 700-783).
ExportElement ==
  /\ pc = "extract"
  /\ tu_children # <<>>
  /\ LET element == Head(tu_children)
         fileobj == element.file
         located == fileobj # NoFile
         \* line 704: the element's directory is not under the working directory
         outside == located /\ ~startswith(realpath(dirname(fileobj)), cwd)
         \* line 707: the element's file has not been reconstructed before
         fresh   == located /\ ~outside /\ fileobj \notin header_files
         rec     == IF fresh THEN reconstruct(element)
                    ELSE [entries |-> <<>>, continue |-> FALSE]
         \* the iteration gets past line 740
         own     == ~outside /\ ~rec.continue /\ (located => fileobj = filename)
         isVar   == own /\ element.kind = "VAR_DECL"
         scanned == /\ own
                    /\ element.kind \in SCAN_ELEMENTS
                    /\ element.first_token # "extern"
         obj_    == accumulate(element)
     IN
     /\ dones' = IF fresh THEN dones \cup {fileobj} ELSE dones
     /\ src_definitions' = src_definitions \o rec.entries
     /\ global_variables' =
          IF isVar THEN record_variable(global_variables, element.spelling)
          ELSE global_variables
     /\ seen_variables' =
          IF isVar THEN seen_variables \cup {element.spelling} ELSE seen_variables
     /\ IF ~scanned
          THEN /\ tu_children' = Tail(tu_children)
               /\ UNCHANGED <<pc, source_cache, functions>>
        ELSE IF ~located
          \* get_function_source: start_loc.file is None, AttributeError
          THEN /\ pc' = "raised"
               /\ UNCHANGED <<tu_children, source_cache, functions>>
        ELSE \E opened \in IF fileobj \in DOMAIN source_cache
                             THEN { [ok |-> TRUE, lines |-> source_cache[fileobj]] }
                             ELSE OpenOutcomes(fileobj) :
               IF ~opened.ok
                 \* get_function_source: open raises, nothing catches it
                 THEN /\ pc' = "raised"
                      /\ UNCHANGED <<tu_children, source_cache, functions>>
                 ELSE LET source == slice(opened.lines, element.extent[1],
                                          element.extent[2])
                      IN /\ source_cache' =
                              [n \in DOMAIN source_cache \cup {fileobj} |->
                                 IF n = fileobj THEN opened.lines ELSE source_cache[n]]
                         /\ tu_children' = Tail(tu_children)
                         /\ pc' = pc
                         /\ IF source = <<>>
                              THEN UNCHANGED functions
                              ELSE functions' = Append(functions,
                                     [ ea |-> next_ea(functions),
                                       name |-> obj_.name,
                                       conditions |-> obj_.conditions,
                                       loops |-> obj_.loops,
                                       filename |-> filename,
                                       source |-> source ])
  /\ UNCHANGED <<header_files, filename, parser, state, exported, parses>>
  /\ UNCHANGED <<walkVars, scanVars, tx, writer>>

\* The loop is over: line 785, the end of the transaction, and export_one
\* returns (its locals are gone).
FinishExport ==
  /\ pc = "extract"
  /\ tu_children = <<>>
  /\ header_files' = header_files \cup dones
  /\ exported' = exported + 1
  /\ pc' = "idle"
  /\ filename' = NoFile
  /\ state' = "Primary"
  /\ dones' = {}
  /\ parses' = 0
  /\ UNCHANGED <<src_definitions, global_variables, source_cache, functions,
                 parser, tu_children, seen_variables>>
  /\ UNCHANGED <<walkVars, scanVars, tx, writer>>

\* ----------------------------------------- specification: one export run
WalkIdle ==
  /\ parent = <<>>
  /\ kind = <<>>
  /\ spelling = <<>>
  /\ obj = CCLangVisitor("")
  /\ stack = <<>>
  /\ total_elements = 0
  /\ dispatched = <<>>
  /\ invoked = <<>>

Init ==
  /\ InitExport
  /\ WalkIdle
  /\ cursor = [kind |-> "none", tokens |-> <<>>]
  /\ before = obj
  /\ input = <<>>
  /\ output = <<>>

Next ==
  \/ ParsePrimary
  \/ RecoverParse
  \/ BeginExtract
  \/ ExportElement
  \/ FinishExport

Spec == Init /\ [][Next]_vars

\* --------------------------------------------- specification: generic walk
\* The kinds of the trees a generic handler is walked over: the two ends of
\* the literal range and a kind outside it.
WalkKinds == {"INTEGER_LITERAL", "STRING_LITERAL", "COMPOUND_STMT"}

NoCursor == [kind |-> "none", tokens |-> <<>>]

InitWalk ==
  /\ \E n \in 0 .. MaxNodes :
       /\ parent \in ParentMaps(n)
       /\ kind \in [1 .. n -> WalkKinds]
       /\ spelling = [i \in 1 .. n |-> ""]
  /\ obj \in [type : {"generic"}, ret : [WalkKinds \cup {"LITERAL"} -> Outcomes]]
  /\ stack = << SelectSeq([i \in 1 .. Len(parent) |-> i], LAMBDA i : parent[i] = 0) >>
  /\ total_elements = 0
  /\ dispatched = <<>>
  /\ invoked = <<>>
  /\ cursor = NoCursor
  /\ before = obj
  /\ input = <<>>
  /\ output = <<>>
  /\ InitExport

NextWalk == VisitorChild \/ VisitorReturn

SpecWalk == InitWalk /\ [][NextWalk]_vars

\* ------------------------------- specification: accumulating one function
\* The kinds of the nodes of the modelled function bodies.
AccumKinds ==
  {"FOR_STMT", "WHILE_STMT", "DO_STMT", "IF_STMT", "SWITCH_STMT",
   "COMPOUND_STMT", "ENUM_DECL", "ENUM_CONSTANT_DECL"}

\* The grammar of C: an enumeration holds its enumerators and nothing else,
\* and an enumerator holds no statement.
WellFormed(p, k) ==
  \A i \in DOMAIN p :
    /\ k[i] = "ENUM_CONSTANT_DECL" <=> (p[i] # 0 /\ k[p[i]] = "ENUM_DECL")
    /\ p[i] # 0 => k[p[i]] # "ENUM_CONSTANT_DECL"

InitAccum ==
  /\ \E n \in 0 .. MaxNodes :
       /\ parent \in ParentMaps(n)
       /\ kind \in [1 .. n -> AccumKinds]
       /\ spelling = [i \in 1 .. n |-> ""]
  /\ WellFormed(parent, kind)
  /\ obj = CCLangVisitor("f")
  /\ stack = << SelectSeq([i \in 1 .. Len(parent) |-> i], LAMBDA i : parent[i] = 0) >>
  /\ total_elements = 0
  /\ dispatched = <<>>
  /\ invoked = <<>>
  /\ cursor = NoCursor
  /\ before = obj
  /\ input = <<>>
  /\ output = <<>>
  /\ InitExport

SpecAccum == InitAccum /\ [][NextWalk]_vars

\* ------------------- specification: the calls and references of a function
\* The nodes of the modelled bodies of a function f: calls of f and of g,
\* references to the names g, gv and v, and the declaration of a local g.
RefNodes ==
  { <<"CALL_EXPR", "f">>, <<"CALL_EXPR", "g">>,
    <<"DECL_REF_EXPR", "g">>, <<"DECL_REF_EXPR", "gv">>, <<"DECL_REF_EXPR", "v">>,
    <<"VAR_DECL", "g">> }

\* A reference to a declaration has no children.
WellFormedRefs(p, k) ==
  \A i \in DOMAIN p :
    p[i] # 0 => k[p[i]] # "DECL_REF_EXPR"

\* The top-level variables export_one met before it reached the function, in
\* the order it met them.
VariableRuns == { <<>>, <<"g">>, <<"g", "gv">>, <<"gv", "g">> }

RECURSIVE record_all(_, _)
record_all(gv, names) ==
  IF names = <<>> THEN gv
  ELSE record_all(record_variable(gv, Head(names)), Tail(names))

\* export_one at line 758 for a function f: the accumulator is fresh, and
\* line 755 has handed it self.global_variables.
InitRefs ==
  /\ \E n \in 0 .. MaxNodes : \E d \in [1 .. n -> RefNodes] :
       /\ parent \in ParentMaps(n)
       /\ kind = [i \in 1 .. n |-> d[i][1]]
       /\ spelling = [i \in 1 .. n |-> d[i][2]]
  /\ WellFormedRefs(parent, kind)
  /\ \E run \in VariableRuns :
       /\ seen_variables = { run[i] : i \in DOMAIN run }
       /\ global_variables = record_all([type |-> "set", value |-> {}], run)
  /\ obj = [CCLangVisitor("f") EXCEPT !.global_variables = global_variables]
  /\ stack = << SelectSeq([i \in 1 .. Len(parent) |-> i], LAMBDA i : parent[i] = 0) >>
  /\ total_elements = 0
  /\ dispatched = <<>>
  /\ invoked = <<>>
  /\ cursor = NoCursor
  /\ before = obj
  /\ input = <<>>
  /\ output = <<>>
  /\ header_files = {}
  /\ src_definitions = <<>>
  /\ source_cache = <<>>
  /\ functions = <<>>
  /\ pc = "extract"
  /\ filename = SourceFiles[1]
  /\ parser = NoParser
  /\ state = "Primary"
  /\ dones = {}
  /\ tu_children = <<>>
  /\ exported = 0
  /\ parses = 1
  /\ tx = <<>>
  /\ writer = 0

SpecRefs == InitRefs /\ [][NextWalk]_vars

\* ------------------------- specification: literals visited by a function
\* Largest number of literal cursors visited.
MaxVisits == 3

LiteralToken(s) == [kind |-> "LITERAL", spelling |-> s]

\* The literal cursors of the modelled function: the string literals "ab",
\* "a\n", L"ab", "" and "a" "b" (two adjacent tokens), the integer literal 1 and
\* the floating literal 1.5f.
LiteralCursors ==
  { [kind |-> "STRING_LITERAL",
     tokens |-> << LiteralToken(<<"\"", "a", "b", "\"">>) >>],
    [kind |-> "STRING_LITERAL",
     tokens |-> << LiteralToken(<<"\"", "a", "\\", "n", "\"">>) >>],
    [kind |-> "STRING_LITERAL",
     tokens |-> << LiteralToken(<<"L", "\"", "a", "b", "\"">>) >>],
    [kind |-> "STRING_LITERAL", tokens |-> << LiteralToken(<<"\"", "\"">>) >>],
    [kind |-> "STRING_LITERAL",
     tokens |-> << LiteralToken(<<"\"", "a", "\"">>),
                   LiteralToken(<<"\"", "b", "\"">>) >>],
    [kind |-> "INTEGER_LITERAL", tokens |-> << LiteralToken(<<"1">>) >>],
    [kind |-> "FLOATING_LITERAL",
     tokens |-> << LiteralToken(<<"1", ".", "5", "f">>) >>] }

InitLiteral ==
  /\ WalkIdle
  /\ cursor = NoCursor
  /\ before = obj
  /\ input = <<>>
  /\ output = <<>>
  /\ InitExport

\* obj.visit_LITERAL(cursor) for a literal cursor, as visitor calls it
\* (lines 363-368); a cursor may be visited again.
VisitLiteral ==
  /\ Len(invoked) < MaxVisits
  /\ \E c \in LiteralCursors :
       LET r == Invoke(obj, "LITERAL",
                       [kind |-> c.kind, spelling |-> "", tokens |-> c.tokens])
       IN /\ cursor' = c
          /\ before' = obj
          /\ obj' = r.obj
          /\ invoked' = Append(invoked, <<0, "LITERAL", r.result>>)
  /\ UNCHANGED <<parent, kind, spelling, stack, total_elements, dispatched,
                 input, output, exportVars>>

NextLiteral == VisitLiteral

SpecLiteral == InitLiteral /\ [][NextLiteral]_vars

\* ----------------------------- specification: the flags of a declaration
\* Largest number of specifiers before the return type of a declaration.
MaxSpecifiers == 2

Specifiers ==
  { <<"s", "t", "a", "t", "i", "c">>,
    <<"i", "n", "l", "i", "n", "e">>,
    <<"_", "_", "i", "n", "l", "i", "n", "e", "_", "_">>,
    <<"_", "_", "f", "o", "r", "c", "e", "i", "n", "l", "i", "n", "e">>,
    <<"e", "x", "t", "e", "r", "n">> }

\* The tokens of the declarations `<specifiers> int <name> ( ) <body>` with
\* the names f and inline_add, the body being `;`, `{ }` or a block that
\* uses an identifier with `inline` in it.
DeclTokenStreams ==
  { pre \o << <<"i", "n", "t">>, name, <<"(">>, <<")">> >> \o body :
      pre \in SeqsUpTo(Specifiers, MaxSpecifiers),
      name \in { <<"f">>, <<"i", "n", "l", "i", "n", "e", "_", "a", "d", "d">> },
      body \in { << <<";">> >>,
                 << <<"{">>, <<"}">> >>,
                 << <<"{">>, <<"_", "_", "i", "n", "l", "i", "n", "e">>, <<";">>, <<"}">> >> } }

InitFlags ==
  /\ WalkIdle
  /\ cursor \in [kind : SCAN_ELEMENTS, tokens : DeclTokenStreams]
  /\ before = obj
  /\ input = <<>>
  /\ output = <<>>
  /\ InitExport

\* Lines 754-757 of export_one for the declaration `cursor`: the fresh
\* accumulator gets its is_inlined and is_static attributes.
SetFlags ==
  /\ "is_inlined" \notin DOMAIN obj
  /\ obj' = [a \in DOMAIN obj \cup {"is_inlined", "is_static"} |->
               IF a = "is_inlined" THEN is_inline(cursor)
               ELSE IF a = "is_static" THEN is_static(cursor)
               ELSE obj[a]]
  /\ UNCHANGED <<parent, kind, spelling, stack, total_elements, dispatched, invoked,
                 scanVars, exportVars>>

NextFlags == SetFlags

SpecFlags == InitFlags /\ [][NextFlags]_vars

\* ------------------------------------- specification: parallel mode
\* Largest number of workers, each exporting one file in a transaction of
\* its own.
MaxWorkers == 3

Workers == 1 .. MaxWorkers

\* A mutant of can_write: the store lets any worker write at any time.
can_write_unserialized(w) == TRUE

\* The store serializes the insertions: a worker writes when no other
\* worker's transaction holds the write lock.
can_write(w) == writer \in {0, w}

\* The rows the count query of worker w's insert statement reads: the
\* committed rows and the rows of w's own transaction.
visible(w) == functions \o tx[w].rows

\* export_one in parallel mode for worker w's file, as far as the store sees
\* it: the file has tx[w].todo functions to persist.
InitParallel ==
  /\ WalkIdle
  /\ cursor = NoCursor
  /\ before = obj
  /\ input = <<>>
  /\ output = <<>>
  /\ header_files = {}
  /\ src_definitions = <<>>
  /\ global_variables = [type |-> "set", value |-> {}]
  /\ source_cache = <<>>
  /\ functions = <<>>
  /\ pc = "idle"
  /\ filename = NoFile
  /\ parser = NoParser
  /\ state = "Primary"
  /\ dones = {}
  /\ tu_children = <<>>
  /\ exported = 0
  /\ seen_variables = {}
  /\ parses = 0
  /\ tx \in [Workers -> [pc : {"open"}, todo : 1 .. MaxElems, rows : {<<>>}]]
  /\ writer = 0

\* Lines 766-783 in worker w: the insert statement, with its count query,
\* runs inside w's transaction (line 687; no BEGIN of line 690 in parallel
\* mode).
WorkerInsert(w) ==
  /\ tx[w].pc = "open"
  /\ tx[w].todo > 0
  /\ can_write(w)
  /\ tx' = [tx EXCEPT ![w].todo = @ - 1,
                      ![w].rows = Append(@, [ea |-> next_ea(visible(w)), worker |-> w])]
  /\ writer' = w
  /\ UNCHANGED <<walkVars, scanVars, header_files, src_definitions,
                 global_variables, source_cache, functions, pc, filename, parser,
                 state, dones, tu_children, exported, seen_variables, parses>>

\* The end of `with db as cur` (line 687) in worker w: its transaction
\* commits and its rows join the table.
WorkerCommit(w) ==
  /\ tx[w].pc = "open"
  /\ tx[w].todo = 0
  /\ functions' = functions \o tx[w].rows
  /\ tx' = [tx EXCEPT ![w].pc = "committed", ![w].rows = <<>>]
  /\ writer' = IF writer = w THEN 0 ELSE writer
  /\ UNCHANGED <<walkVars, scanVars, header_files, src_definitions,
                 global_variables, source_cache, pc, filename, parser,
                 state, dones, tu_children, exported, seen_variables, parses>>

NextParallel == \E w \in Workers : WorkerInsert(w) \/ WorkerCommit(w)

SpecParallel == InitParallel /\ [][NextParallel]_vars

\* ------------------------------- specification: the recovery buffer
\* Largest number of white-space characters a line starts with.
MaxIndent == 3

\* The lines of the modelled files: spaces and tabs, then `#define X`,
\* `#include <x>` or the statement `x;`, ended by LF or by CR LF.
FileTexts ==
  { <<"#", "d", "e", "f", "i", "n", "e", " ", "X">>,
    <<"#", "i", "n", "c", "l", "u", "d", "e", " ", "<", "x", ">">>,
    <<"x", ";">> }

IndentedLines ==
  { indent \o text \o ending :
      indent \in SeqsUpTo({" ", "TAB"}, MaxIndent),
      text \in FileTexts,
      ending \in { <<"LF">>, <<"CR", "LF">> } }

\* What readlines() gives for the file: a line of IndentedLines, alone or
\* followed by a line that is not indented.
Files ==
  { <<first>> \o rest :
      first \in IndentedLines,
      rest \in {<<>>} \cup { <<text \o <<"LF">> >> : text \in FileTexts } }

InitStrip ==
  /\ WalkIdle
  /\ cursor = NoCursor
  /\ before = obj
  /\ input \in Files
  /\ output = <<>>
  /\ InitExport

\* Line 678: new_src = self.strip_macros(filename)
StripMacros ==
  /\ output = <<>>
  /\ output' = strip_macros(input)
  /\ UNCHANGED <<walkVars, cursor, before, input, exportVars>>

NextStrip == StripMacros

SpecStrip == InitStrip /\ [][NextStrip]_vars

\* ------------------------- specification: one aggregate reconstructed
\* Largest number of members of the reconstructed aggregate.
MaxMembers == 2

\* The declaration node of `struct { int x; }` or `union { int x; }`.
Anonymous(k) ==
  [ kind |-> k, spelling |-> "",
    type |-> << (IF k = "STRUCT_DECL" THEN "struct" ELSE "union"),
                "(anonymous ", "at h:1)" >>,
    children |-> << FieldDecl(<<"int">>, "x", FALSE, <<>>) >> ]

\* The children a member adds to its aggregate: `int a;`, `int b : 3;`,
\* `int c[2];`, `int (*d)(void);`, a packed attribute, and the members
\* `struct { int x; } s;` and `union { int x; } u;`, each the declaration
\* node of the anonymous aggregate followed by the field whose first child is
\* that node.
Members ==
  { << PlainField >>,
    << FieldDecl(<<"int">>, "b", TRUE,
                 << [kind |-> "INTEGER_LITERAL", tokens |-> <<"3">>] >>) >>,
    << FieldDecl(<<"int", "[2]">>, "c", FALSE, <<>>) >>,
    << FieldDecl(<<"int", "(*", ")(", "void", ")">>, "d", FALSE, <<>>) >>,
    << [kind |-> "PACKED_ATTR", spelling |-> "", type |-> <<>>, children |-> <<>>] >>,
    << Anonymous("STRUCT_DECL"),
       FieldDecl(Anonymous("STRUCT_DECL").type, "s", FALSE, <<Anonymous("STRUCT_DECL")>>) >>,
    << Anonymous("UNION_DECL"),
       FieldDecl(Anonymous("UNION_DECL").type, "u", FALSE, <<Anonymous("UNION_DECL")>>) >> }

RECURSIVE Flatten(_)
Flatten(seqs) == IF seqs = <<>> THEN <<>> ELSE Head(seqs) \o Flatten(Tail(seqs))

\* struct S and union V of the header /w/h, of at most MaxMembers members.
Aggregates ==
  { Decl(k[1], HeaderAbsolute, k[3], k[2], <<1, 1>>, Flatten(members)) :
      k \in { <<"STRUCT_DECL", "struct", "S">>, <<"UNION_DECL", "union", "V">> },
      members \in SeqsUpTo(Members, MaxMembers) }

InitTypes ==
  /\ WalkIdle
  /\ cursor = NoCursor
  /\ before = obj
  /\ input \in Aggregates
  /\ output = <<>>
  /\ InitExport

\* Lines 710-711 and 717-718: the element is parsed by its kind.
ParseAggregate ==
  /\ output = <<>>
  /\ output' = IF input.kind = "STRUCT_DECL" THEN parse_struct(input, FALSE)
               ELSE parse_union(input, FALSE)
  /\ UNCHANGED <<walkVars, cursor, before, input, exportVars>>

NextTypes == ParseAggregate

SpecTypes == InitTypes /\ [][NextTypes]_vars

\* -------------------------- specification: one callback on one token stream
InitScan ==
  /\ parent = <<>>
  /\ kind = <<>>
  /\ spelling = <<>>
  /\ \E c \in 0 .. MaxPrior : obj = [CCLangVisitor("f") EXCEPT !.conditions = c]
  /\ stack = <<>>
  /\ total_elements = 0
  /\ dispatched = <<>>
  /\ invoked = <<>>
  /\ cursor = NoCursor
  /\ before = obj
  /\ input = <<>>
  /\ output = <<>>
  /\ InitExport

\* obj.visit_<k>(cursor) for a cursor of kind k, as visitor calls it.
Visit(k) ==
  /\ cursor = NoCursor
  /\ \E tokens \in CursorTokens(k) :
       /\ cursor' = [kind |-> k, tokens |-> tokens]
       /\ before' = obj
       /\ obj' = Invoke(obj, k, [kind |-> k, spelling |-> "", tokens |-> tokens]).obj
  /\ UNCHANGED <<parent, kind, spelling, stack, total_elements, dispatched, invoked,
                 input, output, exportVars>>

VisitIfStmt == Visit("IF_STMT")
VisitSwitchStmt == Visit("SWITCH_STMT")
VisitBinaryOperator == Visit("BINARY_OPERATOR")
VisitLoop == \E k \in {"WHILE_STMT", "FOR_STMT", "DO_STMT"} : Visit(k)

NextScan == VisitIfStmt \/ VisitSwitchStmt \/ VisitBinaryOperator \/ VisitLoop

SpecScan == InitScan /\ [][NextScan]_vars


\* ================================================================== claims
\* ------------------------------------------------- the walker (SpecWalk)
\* The chain of nodes from a child of the root cursor down to n.
RECURSIVE PathTo(_)
PathTo(n) == IF n = 0 THEN <<>> ELSE Append(PathTo(parent[n]), n)

\* The proper ancestors of n below the root cursor.
Ancestors(n) == { PathTo(n)[i] : i \in 1 .. Len(PathTo(n)) - 1 }

\* a comes before b in the depth-first pre-order of the tree: a is an
\* ancestor of b, or where their paths part a's side is the earlier child.
Precedes(a, b) ==
  LET p == PathTo(a)
      q == PathTo(b)
  IN \/ (Len(p) < Len(q) /\ SubSeq(q, 1, Len(p)) = p)
     \/ \E i \in 1 .. Len(p) :
          /\ i <= Len(q)
          /\ SubSeq(p, 1, i - 1) = SubSeq(q, 1, i - 1)
          /\ p[i] < q[i]

Dispatched == { dispatched[i] : i \in DOMAIN dispatched }

\* A callback invoked for n returned a true value ("fully handled").
ReportedHandled(n) == \E i \in DOMAIN invoked : invoked[i][1] = n /\ invoked[i][3]

\* C5: the walker dispatches each descendant of the root at most once and in
\* depth-first pre-order; a dispatched node has every ancestor dispatched and
\* none of them reported "fully handled" (by its kind callback or its literal
\* callback); and when the walk is over every node none of whose ancestors
\* reported "fully handled" has been dispatched.
C5_PreOrderWalk ==
  /\ total_elements = Len(dispatched)
  /\ \A i, j \in DOMAIN dispatched :
       i < j => /\ dispatched[i] # dispatched[j]
                /\ Precedes(dispatched[i], dispatched[j])
  /\ \A n \in Dispatched :
       \A a \in Ancestors(n) : a \in Dispatched /\ ~ReportedHandled(a)
  /\ stack = <<>> =>
       \A n \in Nodes :
         (\A a \in Ancestors(n) : ~ReportedHandled(a)) => n \in Dispatched

\* C5 witness: a finished walk that descended below a child of the root and
\* skipped the child of a node that reported "fully handled".
C5_Witness ==
  /\ stack = <<>>
  /\ \E n \in Nodes :
       ReportedHandled(n) /\ \E c \in Nodes : parent[c] = n /\ c \notin Dispatched
  /\ \E n \in Dispatched : parent[n] # 0

\* The kinds from integer literal through string literal.
LiteralKinds ==
  {"INTEGER_LITERAL", "FLOATING_LITERAL", "IMAGINARY_LITERAL", "STRING_LITERAL"}

LiteralCalls(n) ==
  Cardinality({ i \in DOMAIN invoked : invoked[i][1] = n /\ invoked[i][2] = "LITERAL" })

KindCallbackReported(n) ==
  \E i \in DOMAIN invoked :
    invoked[i][1] = n /\ invoked[i][2] = kind[n] /\ invoked[i][3]

\* C6 as stated: for every dispatched node of a kind in the literal range,
\* a handler that has a literal callback has it invoked exactly once,
\* whatever the node's kind-specific callback reported.
C6_LiteralAlways ==
  \A n \in Dispatched :
    (kind[n] \in LiteralKinds /\ obj.ret["LITERAL"] # "absent")
      => LiteralCalls(n) = 1

\* C6 amended: for every dispatched node of a kind in the literal range, a
\* handler that has a literal callback has it invoked exactly once, unless
\* the node's kind-specific callback reported "fully handled", and then the
\* literal callback is not invoked for that node.
C6_LiteralUnlessHandled ==
  \A n \in Dispatched :
    (kind[n] \in LiteralKinds /\ obj.ret["LITERAL"] # "absent")
      => LiteralCalls(n) = IF KindCallbackReported(n) THEN 0 ELSE 1

\* C6 witness: one walk in which a literal node with a kind-specific callback
\* that returned a false value got the literal callback, and another literal
\* node, whose kind-specific callback reported "fully handled", did not.
C6_Witness ==
  /\ obj.ret["LITERAL"] # "absent"
  /\ \E n \in Dispatched :
       /\ kind[n] \in LiteralKinds
       /\ \E i \in DOMAIN invoked :
            invoked[i][1] = n /\ invoked[i][2] = kind[n] /\ ~invoked[i][3]
       /\ LiteralCalls(n) = 1
  /\ \E n \in Dispatched :
       kind[n] \in LiteralKinds /\ KindCallbackReported(n) /\ LiteralCalls(n) = 0

\* ------------------------------------------- the accumulator (SpecAccum)
LoopNodes == { n \in Nodes : kind[n] \in {"FOR_STMT", "WHILE_STMT", "DO_STMT"} }

\* C9: after the walk of a function subtree with the accumulator, the loop
\* count is the number of for/while/do nodes of the subtree, whatever their
\* nesting (in loops, in if bodies, in switch bodies).
C9_LoopCount == stack = <<>> => obj.loops = Cardinality(LoopNodes)

\* C9 witness: a finished walk of a subtree with a loop nested in a loop that
\* is nested in an if or a switch.
C9_Witness ==
  /\ stack = <<>>
  /\ obj.loops = 2
  /\ \E n \in LoopNodes :
       /\ parent[n] \in LoopNodes
       /\ parent[parent[n]] # 0
       /\ kind[parent[parent[n]]] \in {"IF_STMT", "SWITCH_STMT"}

\* ---------------------------------------------- the callbacks (SpecScan)
\* The `)` that closes the condition of an if statement.
ClosePos(tokens) ==
  CHOOSE i \in Closers(tokens) : \A j \in Closers(tokens) : i <= j

\* C10: visiting an if statement adds to the condition counter 1 plus the
\* number of && and || tokens before the parenthesis that closes the
\* condition; the tokens after it add nothing.
C10_IfConditions ==
  cursor.kind = "IF_STMT" =>
    obj.conditions - before.conditions
      = 1 + CountIn(SubSeq(cursor.tokens, 1, ClosePos(cursor.tokens)), {"&&", "||"})

\* C10 witness: an if statement visited with an operator inside its condition
\* and another one after the closing parenthesis.
C10_Witness ==
  /\ cursor.kind = "IF_STMT"
  /\ obj.conditions - before.conditions = 2
  /\ CountIn(cursor.tokens, {"&&", "||"}) = 2

CasePositions(tokens) == { i \in 1 .. Len(tokens) - 1 : tokens[i] = "case" }

CaseLabels(tokens) == { tokens[i + 1] : i \in CasePositions(tokens) }

\* The case labels are literals, no two of them the same.
DistinctLiteralLabels(tokens) ==
  /\ \A l \in CaseLabels(tokens) : TokenKindOf(l) = "LITERAL"
  /\ Cardinality(CaseLabels(tokens)) = Cardinality(CasePositions(tokens))

\* C1: for a visited switch whose case labels are k distinct literals, the
\* appended entry is [k + 1, V] with a default label and [k, V] without, V
\* being exactly the k label texts.
C1_SwitchEntry ==
  (cursor.kind = "SWITCH_STMT" /\ DistinctLiteralLabels(cursor.tokens)) =>
    /\ Len(obj.switches) = Len(before.switches) + 1
    /\ obj.switches[Len(obj.switches)]
         = << Cardinality(CaseLabels(cursor.tokens))
                + (IF \E i \in DOMAIN cursor.tokens : cursor.tokens[i] = "default"
                     THEN 1 ELSE 0),
              CaseLabels(cursor.tokens) >>


\* ------------------------------------------------- the export run (Spec)
\* The entries of src_definitions for the struct named `name`.
StructEntries(name) ==
  { i \in DOMAIN src_definitions :
      src_definitions[i][1] = "struct" /\ src_definitions[i][2] = name }

\* C2: the struct S of the header /w/h, which no other file declares, is
\* appended to the type-definition list at most once in an export run,
\* however many translation units include the header and however they spell
\* its path.
C2_HeaderTypesOnce == Cardinality(StructEntries("S")) <= 1

\* The loop is about to process a top-level variable of the primary file.
AtPrimaryVariable ==
  /\ pc = "extract"
  /\ tu_children # <<>>
  /\ Head(tu_children).kind = "VAR_DECL"
  /\ Head(tu_children).file \in {NoFile, filename}

\* C3: the GlobalVariableSet is append-only: every step leaves it a set that
\* still holds every name it held, and a step that processes a top-level
\* variable of the primary file leaves that variable's name in it.
C3_AppendOnly ==
  [][ /\ global_variables'.type = "set"
      /\ global_variables.value \subseteq global_variables'.value
      /\ AtPrimaryVariable => Head(tu_children).spelling \in global_variables'.value
    ]_vars

\* C4: in a run that starts from an empty functions table, the identifier of
\* the N-th persisted function record is N.
C4_SequentialIds == \A i \in DOMAIN functions : functions[i].ea = i

\* C4 witness: three records persisted, from the two files.
C4_Witness ==
  /\ Len(functions) >= 3
  /\ functions[1].filename # functions[3].filename

\* A top-level declaration attributable to the target file: one that the
\* front-end does not locate in another file.
Attributable(element) == element.file = NoFile \/ element.file = filename

\* The primary parse gave an error or fatal diagnostic and no top-level
\* declaration attributable to the target file.
Unproductive ==
  /\ parser.errors + parser.fatals >= 1
  /\ \A i \in DOMAIN parser.tu : ~Attributable(parser.tu[i])

C7_Parses ==
  /\ parses <= 2
  /\ state = "Recovered" => parses = 2
  /\ pc = "parsed" =>
       parser.source = IF state = "Recovered" THEN "buffer" ELSE "file"

C7_Step ==
  /\ (pc = "parsed" /\ state = "Primary") =>
       /\ (state' = "Recovered" /\ pc' = "parsed") <=> Unproductive
       /\ ~Unproductive => (pc' = "extract" /\ state' = "Primary")
  /\ (pc = "parsed" /\ state = "Recovered") => pc' = "extract"
  /\ (pc = "parsed" /\ pc' = "extract") => tu_children' = parser.tu

\* C7: after the primary parse export_one moves to Recovered, parsing the
\* stripped buffer, exactly when the parse gave an error or fatal diagnostic
\* and no top-level declaration attributable to the target file; else it
\* stays in Primary. A file is parsed at most twice, and the extraction loop
\* runs over the tree of the last parse.
C7_Recovery == []C7_Parses /\ [][C7_Step]_vars

\* C7 witness: extraction under way on a recovered, non-empty tree.
C7_Witness ==
  /\ state = "Recovered"
  /\ pc = "extract"
  /\ parses = 2
  /\ tu_children # <<>>

\* C8: an iteration of the extraction loop surfaces no error and goes on with
\* the remaining top-level nodes; a function whose source slice cannot be
\* read gets no record (a record is persisted only with a non-empty source).
C8_UnreadableSkipped ==
  [][ (pc = "extract" /\ tu_children # <<>>) =>
        /\ pc' = "extract"
        /\ tu_children' = Tail(tu_children)
        /\ functions' # functions =>
             /\ Len(functions') = Len(functions) + 1
             /\ functions'[Len(functions')].source # <<>>
    ]_vars


\* --------------------------------- calls and references (SpecRefs)
SelfCalls == { n \in Nodes : kind[n] = "CALL_EXPR" /\ spelling[n] = obj.name }

\* C11: after the walk of a function's subtree, its recursive flag is true
\* if and only if the subtree holds a call expression whose callee name is
\* the function's own name.
C11_Recursive == stack = <<>> => (obj.recursive <=> SelfCalls # {})

\* C11 witness: a finished walk that set the flag for a self-call nested in
\* another node, the subtree also calling another function.
C11_Witness ==
  /\ stack = <<>>
  /\ obj.recursive
  /\ \E n \in SelfCalls : parent[n] # 0
  /\ \E n \in Nodes : kind[n] = "CALL_EXPR" /\ spelling[n] # obj.name

\* The walker is about to dispatch a reference to a declaration.
AtReference ==
  /\ stack # <<>>
  /\ Head(stack) # <<>>
  /\ kind[Head(Head(stack))] = "DECL_REF_EXPR"

\* C14: a referenced name is added to the global-uses set exactly when, at
\* the time of the reference, it is not in the local-variable set and is the
\* name of a top-level variable met so far; every member of global-uses is
\* the name of such a variable.
C14_GlobalUses ==
  /\ [](obj.globals_uses \subseteq seen_variables)
  /\ [][ AtReference =>
           LET name == spelling[Head(Head(stack))] IN
           obj'.globals_uses =
             IF name \notin obj.local_vars /\ name \in seen_variables
               THEN obj.globals_uses \cup {name}
               ELSE obj.globals_uses ]_vars


\* ------------------------------------------------ literals (SpecLiteral)
\* The text between the first and the last double quote of a token.
Quoted(s) ==
  LET q == { i \in DOMAIN s : s[i] = "\"" }
      first == CHOOSE i \in q : \A j \in q : i <= j
      last  == CHOOSE i \in q : \A j \in q : j <= i
  IN SubSeq(s, first + 1, last - 1)

\* The text a string literal denotes: the decoded texts of its tokens, one
\* after the other.
RECURSIVE DecodedText(_)
DecodedText(tokens) ==
  IF tokens = <<>> THEN <<>>
  ELSE get_printable_value(Quoted(Head(tokens).spelling)) \o DecodedText(Tail(tokens))

\* C12: after a visit of a string literal node its decoded text is in the
\* external-reference set and in the constant set, and a further visit of
\* the same node changes neither set.
C12_StringLiteral ==
  /\ [](cursor.kind = "STRING_LITERAL" =>
          /\ DecodedText(cursor.tokens) \in obj.externals
          /\ DecodedText(cursor.tokens) \in obj.constants)
  /\ [][ (cursor.kind = "STRING_LITERAL" /\ cursor' = cursor) =>
           /\ obj'.externals = obj.externals
           /\ obj'.constants = obj.constants ]_vars


\* ------------------------------------- the working-directory rule (Spec)
\* The directory dir lies within the subtree of the directory root.
InSubtree(dir, root) == dir = root \/ startswith(dir, root \o <<"/">>)

\* The names of the structs declared in files within the working directory
\* subtree.
DeclaredInside ==
  { e.spelling : e \in
      { d \in UNION { { TopLevel(SourceFiles[i])[j] : j \in DOMAIN TopLevel(SourceFiles[i]) } :
                       i \in DOMAIN SourceFiles } :
          /\ d.kind = "STRUCT_DECL"
          /\ d.file # NoFile
          /\ InSubtree(realpath(dirname(d.file)), cwd) } }

\* C13: a struct declared in a file whose directory lies outside the working
\* directory subtree, a sibling directory whose path has the working
\* directory's path as a prefix included, never gets an entry in the
\* type-definition list.
C13_OutsideIgnored ==
  \A i \in DOMAIN src_definitions :
    src_definitions[i][1] = "struct" => src_definitions[i][2] \in DeclaredInside


\* ------------------------------------------------------ flags (SpecFlags)
\* The tokens before the body's opening brace (all of them when the
\* declaration has no body).
BeforeBrace(tokens) ==
  LET braces == { i \in DOMAIN tokens : tokens[i] = <<"{">> }
  IN IF braces = {} THEN tokens
     ELSE SubSeq(tokens, 1, (CHOOSE i \in braces : \A j \in braces : i <= j) - 1)

\* C15: the inlined flag is true if and only if the declaration is a plain
\* function declaration and one of its tokens before the body's opening
\* brace is one of the inline-marker keywords; for the other kinds of
\* declaration the inlined and the static flags are false.
C15_Flags ==
  "is_inlined" \in DOMAIN obj =>
    /\ obj.is_inlined <=>
         /\ cursor.kind = "FUNCTION_DECL"
         /\ \E i \in DOMAIN BeforeBrace(cursor.tokens) :
              BeforeBrace(cursor.tokens)[i] \in INLINE_NAMES
    /\ cursor.kind # "FUNCTION_DECL" => (~obj.is_inlined /\ ~obj.is_static)


RECURSIVE SplitLines(_, _, _)
SplitLines(buf, cur, acc) ==
  IF buf = <<>> THEN Append(acc, cur)
  ELSE IF Head(buf) = "LF" THEN SplitLines(Tail(buf), <<>>, Append(acc, cur))
  ELSE SplitLines(Tail(buf), Append(cur, Head(buf)), acc)

\* A line of the file without its line feed.
Text(line) == SubSeq(line, 1, Len(line) - 1)

\* A text without the spaces and tabs it starts with.
RECURSIVE Trimmed(_)
Trimmed(text) ==
  IF text # <<>> /\ Head(text) \in {" ", "TAB"} THEN Trimmed(Tail(text)) ELSE text

\* The line is a preprocessor directive other than #include.
IsMacroLine(text) ==
  /\ starts_with_char(Trimmed(text), "#")
  /\ ~startswith(Trimmed(text), <<"#", "i", "n", "c", "l", "u", "d", "e">>)

\* C17: the buffer strip_macros builds has the lines of the file, as many
\* and in the same order; a line is commented out in it if and only if its
\* trimmed text starts with # and it is not an #include directive, and
\* every other line is copied unchanged.
C17_StripMacros ==
  output # <<>> =>
    LET out == SplitLines(output, <<>>, <<>>) IN
    /\ Len(out) = Len(input)
    /\ \A i \in DOMAIN input :
         out[i] = IF IsMacroLine(Text(input[i]))
                    THEN <<"/", "/", " ", "s", "t", "r", "i", "p", "p", "e", "d", ":", " ">> \o Text(input[i])
                    ELSE Text(input[i])


\* --------------------------------- nested anonymous aggregates (SpecTypes)
\* The fields of the aggregate whose type is an anonymous aggregate of kind k.
NestedFields(k) ==
  { i \in DOMAIN input.children :
      /\ input.children[i].kind = "FIELD_DECL"
      /\ input.children[i].children # <<>>
      /\ input.children[i].children[1].kind = k
      /\ input.children[i].children[1].spelling = "" }

\* The lines of the text that satisfy Test.
LinesWith(text, Test(_)) == { i \in DOMAIN text : Test(text[i]) }

\* C18: when an aggregate with fields of anonymous struct or union type is
\* reconstructed, each nested body is in the text exactly once, closed by }
\* followed by the field's name; the declaration node of the anonymous
\* aggregate adds no text; this is so for nested structs and nested unions
\* alike, and the braces of the text are balanced.
C18_NestedOnce ==
  (output # <<>> /\ NestedFields("STRUCT_DECL") \cup NestedFields("UNION_DECL") # {}) =>
    LET text == output[2] IN
    /\ Cardinality(LinesWith(text, LAMBDA l : l = <<"struct", "">>))
         = Cardinality(NestedFields("STRUCT_DECL"))
    /\ Cardinality(LinesWith(text, LAMBDA l : l = <<"union", "">>))
         = Cardinality(NestedFields("UNION_DECL"))
    /\ Cardinality(LinesWith(text, LAMBDA l : Head(l) = "}"))
         = Cardinality(NestedFields("STRUCT_DECL") \cup NestedFields("UNION_DECL"))
    /\ \A i \in LinesWith(text, LAMBDA l : Head(l) = "}") :
         \E f \in NestedFields("STRUCT_DECL") \cup NestedFields("UNION_DECL") :
           text[i] = <<"}", input.children[f].spelling, ";">>
    /\ Cardinality(LinesWith(text, LAMBDA l : l = <<"{">>))
         = Cardinality(LinesWith(text, LAMBDA l : Head(l) \in {"}", "};"}))

\* The same for the aggregates whose nested anonymous members are structs.
C18_NestedStructsOnce ==
  NestedFields("UNION_DECL") = {} => C18_NestedOnce

=============================================================================
